---- MODULE Spec2Model ----
(***************************************************************************)
(* Mindbody -> WATI appointment confirmation webhook (src/index.js).       *)
(*                                                                         *)
(* JavaScript values are tagged records: [t |-> "undefined"],              *)
(* [t |-> "null"], [t |-> "string", v |-> "..."], [t |-> "number", v |-> n]*)
(* and [t |-> "object", f |-> <function from property names to values>].   *)
(* An operator that can throw returns [t |-> "throw", v |-> <error name>]. *)
(***************************************************************************)
EXTENDS Integers, Sequences, FiniteSets, TLC

\* ---------------------------------------------------------------- bounds
\* Longest phone string drawn over PhoneAlphabet in the pure-function runs.
MaxPhoneLen == 8
\* Number of webhook requests that may be in flight together.
MaxInFlight == 2

\* ------------------------------------------------------------- JS values
Undef == [t |-> "undefined"]
Null == [t |-> "null"]
Str(s) == [t |-> "string", v |-> s]
Num(n) == [t |-> "number", v |-> n]
Obj(f) == [t |-> "object", f |-> f]
EmptyObj == Obj(<<>>)
Bool(b) == [t |-> "boolean", v |-> b]
Throw(e) == [t |-> "throw", v |-> e]

\* ToBoolean: undefined, null, "", 0 and false are falsy.
Truthy(x) ==
  CASE x.t = "undefined" -> FALSE
    [] x.t = "null" -> FALSE
    [] x.t = "string" -> Len(x.v) > 0
    [] x.t = "number" -> x.v # 0
    [] x.t = "boolean" -> x.v
    [] OTHER -> TRUE

\* a || b
Or(a, b) == IF Truthy(a) THEN a ELSE b

\* o.k on a value that is not undefined/null: an own property of an object,
\* undefined on a primitive or when the property is absent.
Get(o, k) ==
  IF o.t = "object" THEN (IF k \in DOMAIN o.f THEN o.f[k] ELSE Undef) ELSE Undef

\* o?.k
OptGet(o, k) == IF o.t \in {"undefined", "null"} THEN Undef ELSE Get(o, k)

\* ---------------------------------------------------------- string helpers
CharAt(s, i) == SubSeq(s, i, i)

DigitChars == {"0", "1", "2", "3", "4", "5", "6", "7", "8", "9"}

UpperLetters == "ABCDEFGHIJKLMNOPQRSTUVWXYZ"
LowerLetters == "abcdefghijklmnopqrstuvwxyz"

\* The lower-case and upper-case forms of the ASCII letters.
LowerOf ==
  [c \in {CharAt(UpperLetters, i) : i \in 1..26} |->
     CharAt(LowerLetters, CHOOSE i \in 1..26 : CharAt(UpperLetters, i) = c)]

UpperOf ==
  [c \in {CharAt(LowerLetters, i) : i \in 1..26} |->
     CharAt(UpperLetters, CHOOSE i \in 1..26 : CharAt(LowerLetters, i) = c)]

LowerChar(c) == IF c \in DOMAIN LowerOf THEN LowerOf[c] ELSE c

UpperChar(c) == IF c \in DOMAIN UpperOf THEN UpperOf[c] ELSE c

\* String.prototype.toLowerCase
RECURSIVE toLowerCase(_)
toLowerCase(s) ==
  IF Len(s) = 0 THEN "" ELSE LowerChar(CharAt(s, 1)) \o toLowerCase(SubSeq(s, 2, Len(s)))

\* String.prototype.includes
includes(s, sub) ==
  \E i \in 1..(Len(s) - Len(sub) + 1) : SubSeq(s, i, i + Len(sub) - 1) = sub

\* String.prototype.startsWith
startsWith(s, prefix) ==
  Len(s) >= Len(prefix) /\ SubSeq(s, 1, Len(prefix)) = prefix

\* phone.replace(/\D/g, '')
RECURSIVE StripNonDigits(_)
StripNonDigits(s) ==
  IF Len(s) = 0 THEN ""
  ELSE (IF CharAt(s, 1) \in DigitChars THEN CharAt(s, 1) ELSE "")
         \o StripNonDigits(SubSeq(s, 2, Len(s)))

\* ------------------------------------------------------ formatPhoneNumber
formatPhoneNumber_PrefixTwice(phone) ==
  IF ~Truthy(phone) THEN Null
  ELSE IF phone.t # "string" THEN Throw("TypeError")
  ELSE LET cleaned == StripNonDigits(phone.v)
           first == IF Len(cleaned) = 8 /\ startsWith(cleaned, "6")
                    THEN "507" \o cleaned ELSE cleaned
       IN  Str(IF Len(cleaned) = 8 THEN "507" \o first ELSE first)

\* Lines 67-84.  A value without a replace method (a number, an object) makes
\* phone.replace(...) a TypeError.
formatPhoneNumber(phone) ==
  IF ~Truthy(phone) THEN Null
  ELSE IF phone.t # "string" THEN Throw("TypeError")
  ELSE LET cleaned == StripNonDigits(phone.v)
           first == IF Len(cleaned) = 8 /\ startsWith(cleaned, "6")
                    THEN "507" \o cleaned ELSE cleaned
           second == IF Len(first) = 8 THEN "507" \o first ELSE first
       IN  Str(second)

\* ------------------------------------------------- dates (new Date, Intl)
IsDigits(s) == \A i \in 1..Len(s) : CharAt(s, i) \in DigitChars

DigitValue(c) == CHOOSE n \in 0..9 : CharAt("0123456789", n + 1) = c

RECURSIVE ToNat(_)
ToNat(s) ==
  IF Len(s) = 0 THEN 0
  ELSE 10 * ToNat(SubSeq(s, 1, Len(s) - 1)) + DigitValue(CharAt(s, Len(s)))

RECURSIVE NatToStr(_)
NatToStr(n) ==
  IF n < 10 THEN CharAt("0123456789", n + 1)
  ELSE NatToStr(n \div 10) \o CharAt("0123456789", (n % 10) + 1)

\* Days since 1970-01-01 of a civil date of the proleptic Gregorian calendar.
DaysFromCivil(y, m, d) ==
  LET yy == IF m <= 2 THEN y - 1 ELSE y
      era == yy \div 400
      yoe == yy - era * 400
      mp == IF m > 2 THEN m - 3 ELSE m + 9
      doy == (153 * mp + 2) \div 5 + d - 1
      doe == yoe * 365 + yoe \div 4 - yoe \div 100 + doy
  IN  era * 146097 + doe - 719468

CivilFromDays(days) ==
  LET z == days + 719468
      era == z \div 146097
      doe == z - era * 146097
      yoe == (doe - doe \div 1460 + doe \div 36524 - doe \div 146096) \div 365
      doy == doe - (365 * yoe + yoe \div 4 - yoe \div 100)
      mp == (5 * doy + 2) \div 153
      d == doy - (153 * mp + 2) \div 5 + 1
      m == IF mp < 10 THEN mp + 3 ELSE mp - 9
      y == yoe + era * 400 + (IF m <= 2 THEN 1 ELSE 0)
  IN  [year |-> y, month |-> m, day |-> d]

InvalidDate == [valid |-> FALSE]

\* new Date(v) for the value forms the handler can pass: an ISO-8601 UTC
\* string "YYYY-MM-DDTHH:MM:SSZ" or a number of milliseconds gives an
\* instant (in minutes since the epoch); any other value is an Invalid Date.
\* A day of 29..31 past the end of its month rolls into the next month.
NewDate(v) ==
  IF v.t = "number" THEN [valid |-> TRUE, minutes |-> v.v \div 60000]
  ELSE IF v.t # "string" THEN InvalidDate
  ELSE LET s == v.v IN
    IF /\ Len(s) = 20
       /\ IsDigits(SubSeq(s, 1, 4)) /\ CharAt(s, 5) = "-"
       /\ IsDigits(SubSeq(s, 6, 7)) /\ CharAt(s, 8) = "-"
       /\ IsDigits(SubSeq(s, 9, 10)) /\ CharAt(s, 11) = "T"
       /\ IsDigits(SubSeq(s, 12, 13)) /\ CharAt(s, 14) = ":"
       /\ IsDigits(SubSeq(s, 15, 16)) /\ CharAt(s, 17) = ":"
       /\ IsDigits(SubSeq(s, 18, 19)) /\ CharAt(s, 20) = "Z"
       /\ ToNat(SubSeq(s, 6, 7)) \in 1..12
       /\ ToNat(SubSeq(s, 9, 10)) \in 1..31
       /\ ToNat(SubSeq(s, 12, 13)) \in 0..23
       /\ ToNat(SubSeq(s, 15, 16)) \in 0..59
       /\ ToNat(SubSeq(s, 18, 19)) \in 0..59
    THEN [valid |-> TRUE,
          minutes |-> DaysFromCivil(ToNat(SubSeq(s, 1, 4)), ToNat(SubSeq(s, 6, 7)),
                                    ToNat(SubSeq(s, 9, 10))) * 1440
                      + ToNat(SubSeq(s, 12, 13)) * 60 + ToNat(SubSeq(s, 15, 16))]
    ELSE InvalidDate

\* timeZone: 'America/Panama' is UTC-5 all year.
PanamaOffsetMinutes == 300

WeekdaysEs == <<"domingo", "lunes", "martes", "miércoles", "jueves", "viernes", "sábado">>
MonthsEs == <<"enero", "febrero", "marzo", "abril", "mayo", "junio", "julio",
              "agosto", "septiembre", "octubre", "noviembre", "diciembre">>

\* date.toLocaleDateString('es-PA', {weekday, year, month, day: long forms})
toLocaleDateString(date) ==
  IF ~date.valid THEN "Invalid Date"
  ELSE LET local == date.minutes - PanamaOffsetMinutes
           days == local \div 1440
           civil == CivilFromDays(days)
       IN  WeekdaysEs[((days + 4) % 7) + 1] \o ", " \o NatToStr(civil.day) \o " de "
             \o MonthsEs[civil.month] \o " de " \o NatToStr(civil.year)

\* formatted.charAt(0).toUpperCase() + formatted.slice(1)
formatDateSpanish(dateString) ==
  LET formatted == toLocaleDateString(NewDate(dateString))
  IN  UpperChar(CharAt(formatted, 1)) \o SubSeq(formatted, 2, Len(formatted))

\* date.toLocaleTimeString('es-PA', {hour: 'numeric', minute: '2-digit', hour12: true})
formatTime(dateString) ==
  LET date == NewDate(dateString) IN
  IF ~date.valid THEN "Invalid Date"
  ELSE LET minuteOfDay == (date.minutes - PanamaOffsetMinutes) % 1440
           hour == minuteOfDay \div 60
           minute == minuteOfDay % 60
       IN  NatToStr(IF hour % 12 = 0 THEN 12 ELSE hour % 12) \o ":"
             \o (IF minute < 10 THEN "0" ELSE "") \o NatToStr(minute)
             \o (IF hour < 12 THEN " a. m." ELSE " p. m.")

\* ----------------------------------------------------------- configuration
\* config.locations keeps its entries in insertion order (Object.keys).
ConfigLocations ==
  << [key |-> "costa-del-este",
      value |-> Obj([name |-> Str("Costa del Este"),
                     address |-> Str("Plaza Costa del Este, Local 45")])],
     [key |-> "san-francisco",
      value |-> Obj([name |-> Str("San Francisco"),
                     address |-> Str("Calle 74, San Francisco")])] >>

\* process.env.WATI_TEMPLATE_NAME || 'appointment_confirmation'
TemplateNames == {"appointment_confirmation", "cita_confirmada"}

Configs == {[locations |-> ConfigLocations, templateName |-> n] : n \in TemplateNames}

\* --------------------------------------------------------- getLocationInfo
\* Properties every plain object inherits from Object.prototype.
ObjectPrototypeProps ==
  {"constructor", "toString", "toLocaleString", "valueOf", "hasOwnProperty",
   "isPrototypeOf", "propertyIsEnumerable", "__proto__"}

\* Object.prototype.__proto__ is an object, the other members are functions.
Inherited(k) == IF k = "__proto__" THEN Obj(<<>>) ELSE [t |-> "function", v |-> k]

\* ToPropertyKey for obj[v]
ToPropertyKey(v) ==
  CASE v.t = "string" -> v.v
    [] v.t = "number" -> NatToStr(v.v)
    [] v.t = "undefined" -> "undefined"
    [] v.t = "null" -> "null"
    [] v.t = "function" -> "function " \o v.v \o "() { [native code] }"
    [] OTHER -> "[object Object]"

\* locationMap[locationId] on the empty literal of lines 122-125
locationMapGet(locationId) ==
  IF ToPropertyKey(locationId) \in ObjectPrototypeProps
  THEN Inherited(ToPropertyKey(locationId)) ELSE Undef

\* config.locations[k]
LocationsGet(locations, k) ==
  LET key == ToPropertyKey(k) IN
  IF \E i \in 1..Len(locations) : locations[i].key = key
  THEN locations[CHOOSE i \in 1..Len(locations) : locations[i].key = key].value
  ELSE IF key \in ObjectPrototypeProps THEN Inherited(key) ELSE Undef

\* Object.keys(config.locations)[0]
FirstLocationKey(locations) ==
  IF Len(locations) > 0 THEN Str(locations[1].key) ELSE Undef

getLocationInfo_NoDefault(cfg, locationId) ==
  LET locationKey == Or(locationMapGet(locationId), FirstLocationKey(cfg.locations))
  IN  LocationsGet(cfg.locations, locationKey)

\* Lines 120-129.
getLocationInfo(cfg, locationId) ==
  LET locationKey == Or(locationMapGet(locationId), FirstLocationKey(cfg.locations))
  IN  Or(LocationsGet(cfg.locations, locationKey),
         LocationsGet(cfg.locations, Str("costa-del-este")))

\* ------------------------------------------------------ field extraction
\* Lines 169-190: each logical field probes its candidate names in order.
eventType(payload) ==
  Or(Or(Get(payload, "eventType"), Get(payload, "EventType")), Get(payload, "messageType"))

eventData(payload) ==
  Or(Or(Get(payload, "eventData"), Get(payload, "EventData")), payload)

appointment(payload) ==
  Or(Or(Get(eventData(payload), "appointment"), Get(eventData(payload), "Appointment")),
     eventData(payload))

client(payload) ==
  Or(Or(Or(Or(Get(appointment(payload), "client"), Get(appointment(payload), "Client")),
           Get(eventData(payload), "client")),
        Get(eventData(payload), "Client")),
     EmptyObj)

clientName(payload) ==
  LET c == client(payload)
  IN  Or(Or(Or(Get(c, "FirstName"), Get(c, "firstName")), Get(c, "name")), Str("Cliente"))

clientPhone(payload) ==
  LET c == client(payload)
  IN  Or(Or(Or(Or(Get(c, "MobilePhone"), Get(c, "mobilePhone")), Get(c, "Phone")),
            Get(c, "phone")),
         Get(c, "HomePhone"))

serviceName(payload) ==
  LET a == appointment(payload)
  IN  Or(Or(Or(Or(Get(a, "ServiceName"), Get(a, "serviceName")),
               OptGet(Get(a, "SessionType"), "Name")),
            OptGet(Get(a, "sessionType"), "name")),
         Str("Servicio"))

startDateTime(payload) ==
  LET a == appointment(payload)
  IN  Or(Or(Or(Get(a, "StartDateTime"), Get(a, "startDateTime")), Get(a, "StartTime")),
         Get(a, "startTime"))

locationId(payload) ==
  LET a == appointment(payload)
  IN  Or(Or(Or(Get(a, "LocationId"), Get(a, "locationId")),
            OptGet(Get(a, "Location"), "Id")),
         OptGet(Get(a, "location"), "id"))

\* --------------------------------------------------- webhook handler, sync
Param(n, v) == [name |-> n, value |-> v]

WebhookTemplateParams_Swapped(cfg, payload) ==
  LET locationInfo == getLocationInfo(cfg, locationId(payload))
  IN  << Param("1", clientName(payload)),
         Param("2", serviceName(payload)),
         Param("3", Str(formatDateSpanish(startDateTime(payload)))),
         Param("4", Str(formatTime(startDateTime(payload)))),
         Param("5", Get(locationInfo, "name")),
         Param("6", Get(locationInfo, "address")) >>

\* Lines 220-227.
WebhookTemplateParams(cfg, payload) ==
  LET locationInfo == getLocationInfo(cfg, locationId(payload))
  IN  << Param("1", clientName(payload)),
         Param("2", Get(locationInfo, "name")),
         Param("3", Str(formatDateSpanish(startDateTime(payload)))),
         Param("4", Str(formatTime(startDateTime(payload)))),
         Param("5", serviceName(payload)),
         Param("6", Get(locationInfo, "address")) >>

WebhookStage_StartFirst(cfg, payload) ==
  LET et == eventType(payload)
      phone == clientPhone(payload)
  IN
  IF Truthy(et) /\ et.t # "string" THEN "throw"
  ELSE IF Truthy(et) /\ ~includes(toLowerCase(et.v), "appointment") THEN "not_appointment"
  ELSE IF ~Truthy(startDateTime(payload)) THEN "no_start"
  ELSE IF ~Truthy(phone) THEN "no_phone"
  ELSE IF formatPhoneNumber(phone).t = "throw" THEN "throw"
  ELSE IF getLocationInfo(cfg, locationId(payload)).t \in {"undefined", "null"} THEN "throw"
  ELSE "send"

\* Where the synchronous part of the webhook handler (lines 164-234) ends:
\* at one of its three early returns, in its catch block (a TypeError from
\* eventType.toLowerCase, phone.replace or locationInfo.name), or at the
\* await of the provider call.
WebhookStage(cfg, payload) ==
  LET et == eventType(payload)
      phone == clientPhone(payload)
  IN
  IF Truthy(et) /\ et.t # "string" THEN "throw"
  ELSE IF Truthy(et) /\ ~includes(toLowerCase(et.v), "appointment") THEN "not_appointment"
  ELSE IF ~Truthy(phone) THEN "no_phone"
  ELSE IF ~Truthy(startDateTime(payload)) THEN "no_start"
  ELSE IF formatPhoneNumber(phone).t = "throw" THEN "throw"
  ELSE IF getLocationInfo(cfg, locationId(payload)).t \in {"undefined", "null"} THEN "throw"
  ELSE "send"

Response(status, body) == [status |-> status, body |-> body]

SkipResponse_400(reason) ==
  Response(400, Obj([received |-> Bool(TRUE), processed |-> Bool(FALSE),
                     reason |-> Str(reason)]))

\* res.json({ received: true, processed: false, reason }) of lines 175, 195, 200
SkipResponse(reason) ==
  Response(200, Obj([received |-> Bool(TRUE), processed |-> Bool(FALSE),
                     reason |-> Str(reason)]))

\* res.status(500).json(...) of line 246
ErrorResponse(message) ==
  Response(500, Obj([error |-> Str("Internal server error"), message |-> Str(message)]))

\* The arguments of one axios.post of sendWatiTemplateMessage (lines 42-54).
WatiCall(phoneNumber, templateName, parameters) ==
  [whatsappNumber |-> phoneNumber, template_name |-> templateName,
   broadcast_name |-> "appointment_confirmation", parameters |-> parameters]

\* ------------------------------------------------ sendWatiTemplateMessage
\* How axios.post settles: resolved with the provider's body on a 2xx status
\* (whatever that body says), rejected with error.response on another status,
\* rejected without error.response on a transport error.
AxiosOutcomes ==
  { [kind |-> "resolved", response |-> Obj([data |-> Obj([result |-> Bool(TRUE)])]),
     message |-> Undef],
    [kind |-> "resolved", response |-> Obj([data |-> Obj([result |-> Bool(FALSE)])]),
     message |-> Undef],
    [kind |-> "rejected",
     response |-> Obj([data |-> Obj([message |-> Str("Unauthorized")])]),
     message |-> Str("Request failed with status code 401")],
    [kind |-> "rejected", response |-> Obj([data |-> Str("")]),
     message |-> Str("Request failed with status code 502")],
    [kind |-> "rejected", response |-> Undef,
     message |-> Str("connect ECONNREFUSED")] }

NoOutcome == [kind |-> "none"]

DeliveryResult_Rethrow(outcome) ==
  IF outcome.kind = "resolved"
  THEN Obj([success |-> Bool(TRUE), data |-> Get(outcome.response, "data")])
  ELSE Throw("AxiosError")

\* Lines 56-60: what sendWatiTemplateMessage returns once axios.post settled.
DeliveryResult(outcome) ==
  IF outcome.kind = "resolved"
  THEN Obj([success |-> Bool(TRUE), data |-> Get(outcome.response, "data")])
  ELSE Obj([success |-> Bool(FALSE),
            error |-> Or(OptGet(outcome.response, "data"), outcome.message)])

\* ------------------------------------------------------------ the inputs
\* eventId of a Mindbody appointment cancellation notification.
CancelledEventId == "appointmentBooking.cancelled"

\* Event type and event id, under each name the sender may use.
EventFields ==
  { <<>>,
    [eventType |-> Str("appointmentBooking.created")],
    [EventType |-> Str("AppointmentBooking.Updated")],
    [messageType |-> Str("clientSale.created")],
    [eventType |-> Num(7)],
    [eventId |-> Str(CancelledEventId)],
    [EventId |-> Str(CancelledEventId), eventType |-> Str(CancelledEventId)] }

ClientFields ==
  { <<>>,
    [FirstName |-> Str("Ana")],
    [MobilePhone |-> Str("6123-4567"), FirstName |-> Str("Ana")],
    [mobilePhone |-> Str("2123 4567")],
    [Phone |-> Str("+507 6123-4567"), name |-> Str("Luis")],
    [phone |-> Num(61234567)],
    [HomePhone |-> Str("61234567"), firstName |-> Str("Eva")],
    [MobilePhone |-> Str(""), firstName |-> Str("Eva")] }

\* Start time, location and service of the appointment.
AppointmentFields ==
  { <<>>,
    [LocationId |-> Str("san-francisco")],
    [StartDateTime |-> Str("2024-12-02T19:00:00Z"),
     LocationId |-> Str("san-francisco"), ServiceName |-> Str("Masaje Relajante")],
    [startDateTime |-> Str("2024-12-02T19:00:00Z"), locationId |-> Str("costa-del-este")],
    [StartTime |-> Str("soon"), Location |-> Obj([Id |-> Num(12345)]),
     SessionType |-> Obj([Name |-> Str("Facial")])],
    [startTime |-> Str("2024-12-03T03:30:00Z"),
     location |-> Obj([id |-> Str("constructor")]), serviceName |-> Str("Manicure")],
    [StartDateTime |-> Str("2025-01-01T04:59:00Z"),
     sessionType |-> Obj([name |-> Str("Facial")])] }

ClientPart(key, cl) == IF DOMAIN cl = {} THEN <<>> ELSE (key :> Obj(cl))

\* The three payload shapes the extraction tolerates: flat, nested under
\* eventData.appointment, and EventData with the client beside the Appointment.
Payloads ==
  UNION { { Obj(ev @@ ap @@ ClientPart("client", cl)),
            Obj(ev @@ [eventData |->
                  Obj([appointment |-> Obj(ap @@ ClientPart("Client", cl))])]),
            Obj(ev @@ [EventData |->
                  Obj([Appointment |-> Obj(ap)] @@ ClientPart("client", cl))]) }
          : ev \in EventFields, ap \in AppointmentFields, cl \in ClientFields }

\* The payloads of the concurrent runs: one of each way a request can end.
ConcPayloads ==
  { Obj([client |-> Obj([MobilePhone |-> Str("6123-4567"), FirstName |-> Str("Ana")]),
         StartDateTime |-> Str("2024-12-02T19:00:00Z"),
         LocationId |-> Str("san-francisco")]),
    Obj([eventData |-> Obj([appointment |->
           Obj([Client |-> Obj([Phone |-> Str("2123 4567"), name |-> Str("Luis")]),
                startTime |-> Str("2024-12-03T03:30:00Z"),
                ServiceName |-> Str("Facial")])])]),
    Obj([client |-> Obj([FirstName |-> Str("Ana")]),
         StartDateTime |-> Str("2024-12-02T19:00:00Z")]),
    Obj([EventType |-> Str("AppointmentBooking.Updated"),
         Client |-> Obj([HomePhone |-> Str("61234567")])]),
    Obj([messageType |-> Str("clientSale.created")]),
    Obj([client |-> Obj([phone |-> Num(61234567)]), StartTime |-> Str("soon")]) }

\* Bodies of POST /test/send-confirmation.
TestBodies ==
  { Obj(ph @@ rest) :
      ph \in { <<>>, [phone |-> Str("61234567")], [phone |-> Str("6123-4567")],
               [phone |-> Str("")], [phone |-> Num(61234567)] },
      rest \in { <<>>,
                 [name |-> Str("Ana")],
                 [name |-> Str("Ana"), service |-> Str("Facial"),
                  date |-> Str("Martes, 3 de diciembre 2024"), time |-> Str("9:30 AM"),
                  location |-> Str("San Francisco")],
                 [location |-> Str("San Francisco"), time |-> Str("9:30 AM")] } }

\* Phone strings of the pure-function runs: every non-empty string over the
\* alphabet up to MaxPhoneLen, and the documented examples.  Both callers
\* test !phone first, so the function is never handed the empty string.
PhoneAlphabet == {"6", "2", "-"}

RECURSIVE StringsUpTo(_)
StringsUpTo(n) ==
  IF n = 0 THEN {""}
  ELSE LET shorter == StringsUpTo(n - 1)
       IN  shorter \cup {s \o c : s \in shorter, c \in PhoneAlphabet}

PhoneStrings ==
  (StringsUpTo(MaxPhoneLen) \ {""})
    \cup {"6123-4567", "+507 6123-4567", "50761234567", "(507) 212-34567",
          "622222222", "2222222222", "abc"}

LocationIds ==
  { Undef, Null, Str("san-francisco"), Str("costa-del-este"), Str("unknown"),
    Str("constructor"), Str("__proto__"), Num(12345), EmptyObj }

\* ------------------------------------------------------------------ state
Reqs == 1..MaxInFlight

VARIABLES
  config,     \* the module-level config object
  pc,         \* per request: idle, awaitWati, resume, done, rejected
  route,      \* per request: none, webhook, test
  body,       \* per request: req.body
  calls,      \* per request: the axios.post calls it issued
  outcome,    \* per request: how its axios.post settled
  result,     \* per request: what sendWatiTemplateMessage returned
  responses,  \* per request: the HTTP responses written
  threw,      \* per request: the handler's catch block ran
  fnCall,     \* pure-function runs: the call
  fnRet       \* pure-function runs: its return value

vars == <<config, pc, route, body, calls, outcome, result, responses, threw, fnCall, fnRet>>

NoCall == [fn |-> "none", arg |-> Undef]
Pending == [t |-> "pending"]

Idle ==
  /\ pc = [r \in Reqs |-> "idle"]
  /\ route = [r \in Reqs |-> "none"]
  /\ body = [r \in Reqs |-> Undef]
  /\ calls = [r \in Reqs |-> <<>>]
  /\ outcome = [r \in Reqs |-> NoOutcome]
  /\ result = [r \in Reqs |-> Undef]
  /\ responses = [r \in Reqs |-> <<>>]
  /\ threw = [r \in Reqs |-> FALSE]

Init ==
  /\ config \in Configs
  /\ Idle
  /\ fnCall = NoCall
  /\ fnRet = Pending

InitPure ==
  /\ config \in Configs
  /\ Idle
  /\ fnCall \in {[fn |-> "formatPhoneNumber", arg |-> Str(s)] : s \in PhoneStrings}
                  \cup {[fn |-> "getLocationInfo", arg |-> id] : id \in LocationIds}
  /\ fnRet = Pending

\* ---------------------------------------------------------------- actions
Arrive(r, rt, b) ==
  /\ route' = [route EXCEPT ![r] = rt]
  /\ body' = [body EXCEPT ![r] = b]

Finish(r, resp) ==
  /\ pc' = [pc EXCEPT ![r] = "done"]
  /\ responses' = [responses EXCEPT ![r] = Append(@, resp)]

\* Lines 173-176.
WebhookNotAppointment(r, P) ==
  /\ pc[r] = "idle"
  /\ \E payload \in P :
    /\ WebhookStage(config, payload) = "not_appointment"
    /\ Arrive(r, "webhook", payload)
    /\ Finish(r, SkipResponse("Not an appointment event"))
    /\ UNCHANGED <<config, calls, outcome, result, threw, fnCall, fnRet>>

\* Lines 193-196.
WebhookNoPhone(r, P) ==
  /\ pc[r] = "idle"
  /\ \E payload \in P :
    /\ WebhookStage(config, payload) = "no_phone"
    /\ Arrive(r, "webhook", payload)
    /\ Finish(r, SkipResponse("No phone number"))
    /\ UNCHANGED <<config, calls, outcome, result, threw, fnCall, fnRet>>

\* Lines 198-201.
WebhookNoStart(r, P) ==
  /\ pc[r] = "idle"
  /\ \E payload \in P :
    /\ WebhookStage(config, payload) = "no_start"
    /\ Arrive(r, "webhook", payload)
    /\ Finish(r, SkipResponse("No start time"))
    /\ UNCHANGED <<config, calls, outcome, result, threw, fnCall, fnRet>>

\* Lines 244-247, entered from the synchronous part.
WebhookCatch(r, P) ==
  /\ pc[r] = "idle"
  /\ \E payload \in P :
    /\ WebhookStage(config, payload) = "throw"
    /\ Arrive(r, "webhook", payload)
    /\ Finish(r, ErrorResponse("TypeError"))
    /\ threw' = [threw EXCEPT ![r] = TRUE]
    /\ UNCHANGED <<config, calls, outcome, result, fnCall, fnRet>>

\* Lines 203-234: format, build the parameters, issue the provider call and
\* suspend at the await.
WebhookSend(r, P) ==
  /\ pc[r] = "idle"
  /\ \E payload \in P :
    /\ WebhookStage(config, payload) = "send"
    /\ Arrive(r, "webhook", payload)
    /\ calls' = [calls EXCEPT ![r] =
                   Append(@, WatiCall(formatPhoneNumber(clientPhone(payload)),
                                      config.templateName,
                                      WebhookTemplateParams(config, payload)))]
    /\ pc' = [pc EXCEPT ![r] = "awaitWati"]
    /\ UNCHANGED <<config, outcome, result, responses, threw, fnCall, fnRet>>

\* Lines 45-61: axios.post settles and sendWatiTemplateMessage returns.
AxiosSettle(r) ==
  /\ pc[r] = "awaitWati"
  /\ \E o \in AxiosOutcomes :
    /\ outcome' = [outcome EXCEPT ![r] = o]
    /\ result' = [result EXCEPT ![r] = DeliveryResult(o)]
    /\ pc' = [pc EXCEPT ![r] = "resume"]
    /\ UNCHANGED <<config, route, body, calls, responses, threw, fnCall, fnRet>>

WebhookResume_Retry(r) ==
  /\ pc[r] = "resume"
  /\ route[r] = "webhook"
  /\ IF result[r].t # "throw" /\ ~Truthy(Get(result[r], "success")) /\ Len(calls[r]) < 2
     THEN /\ calls' = [calls EXCEPT ![r] = Append(@, calls[r][1])]
          /\ pc' = [pc EXCEPT ![r] = "awaitWati"]
          /\ UNCHANGED <<responses, threw>>
     ELSE /\ Finish(r, Response(200, Obj([received |-> Bool(TRUE),
                                          processed |-> Bool(TRUE),
                                          whatsappSent |-> Bool(TRUE)])))
          /\ UNCHANGED <<calls, threw>>
  /\ UNCHANGED <<config, route, body, outcome, result, fnCall, fnRet>>

\* Lines 236-247: the handler resumes with the DeliveryResult and responds.
WebhookResume(r) ==
  /\ pc[r] = "resume"
  /\ route[r] = "webhook"
  /\ IF result[r].t = "throw"
     THEN /\ Finish(r, ErrorResponse(result[r].v))
          /\ threw' = [threw EXCEPT ![r] = TRUE]
     ELSE /\ Finish(r, Response(200,
               IF Truthy(Get(result[r], "success"))
               THEN Obj([received |-> Bool(TRUE), processed |-> Bool(TRUE),
                         whatsappSent |-> Bool(TRUE)])
               ELSE Obj([received |-> Bool(TRUE), processed |-> Bool(TRUE),
                         whatsappSent |-> Bool(FALSE),
                         error |-> Get(result[r], "error")])))
          /\ UNCHANGED threw
  /\ UNCHANGED <<config, route, body, calls, outcome, result, fnCall, fnRet>>

\* -------------------------------------------------- /test/send-confirmation
\* Lines 260-267.
TestTemplateParams(b) ==
  << Param("1", Or(Get(b, "name"), Str("Test Cliente"))),
     Param("2", Or(Get(b, "location"), Str("Costa del Este"))),
     Param("3", Or(Get(b, "date"), Str("Lunes, 2 de diciembre 2024"))),
     Param("4", Or(Get(b, "time"), Str("2:00 PM"))),
     Param("5", Or(Get(b, "service"), Str("Masaje Relajante 60 min"))),
     Param("6", Str("Plaza Costa del Este")) >>

\* Where the synchronous part of the test handler (lines 254-273) ends: at
\* its 400, in a TypeError thrown by phone.replace that nothing catches, or
\* at the await of the provider call.
TestStage(b) ==
  IF ~Truthy(Get(b, "phone")) THEN "bad_request"
  ELSE IF formatPhoneNumber(Get(b, "phone")).t = "throw" THEN "reject"
  ELSE "send"

\* Lines 256-258.
TestBadRequest(r) ==
  /\ pc[r] = "idle"
  /\ \E b \in TestBodies :
    /\ TestStage(b) = "bad_request"
    /\ Arrive(r, "test", b)
    /\ Finish(r, Response(400, Obj([error |-> Str("Phone number required")])))
    /\ UNCHANGED <<config, calls, outcome, result, threw, fnCall, fnRet>>

\* Lines 253-276 have no try/catch: the async handler's promise rejects and
\* nobody handles it.  Depending on the runtime the request is left without
\* a response (the rejection is only reported, or it ends the process), or
\* the framework answers 500 itself.
TestReject(r) ==
  /\ pc[r] = "idle"
  /\ \E b \in TestBodies, answered \in BOOLEAN :
    /\ TestStage(b) = "reject"
    /\ Arrive(r, "test", b)
    /\ pc' = [pc EXCEPT ![r] = "rejected"]
    /\ responses' = [responses EXCEPT ![r] =
                       IF answered THEN <<Response(500, Undef)>> ELSE <<>>]
    /\ UNCHANGED <<config, calls, outcome, result, threw, fnCall, fnRet>>

\* Lines 269-273.
TestSend(r) ==
  /\ pc[r] = "idle"
  /\ \E b \in TestBodies :
    /\ TestStage(b) = "send"
    /\ Arrive(r, "test", b)
    /\ calls' = [calls EXCEPT ![r] =
                   Append(@, WatiCall(formatPhoneNumber(Get(b, "phone")),
                                      config.templateName, TestTemplateParams(b)))]
    /\ pc' = [pc EXCEPT ![r] = "awaitWati"]
    /\ UNCHANGED <<config, outcome, result, responses, threw, fnCall, fnRet>>

\* Line 275.
TestResume(r) ==
  /\ pc[r] = "resume"
  /\ route[r] = "test"
  /\ IF result[r].t = "throw"
     THEN /\ pc' = [pc EXCEPT ![r] = "rejected"]
          /\ UNCHANGED responses
     ELSE Finish(r, Response(200, result[r]))
  /\ UNCHANGED <<config, route, body, calls, outcome, result, threw, fnCall, fnRet>>

\* ------------------------------------------------------ pure-function runs
CallFormatPhoneNumber ==
  /\ fnCall.fn = "formatPhoneNumber"
  /\ fnRet = Pending
  /\ fnRet' = formatPhoneNumber(fnCall.arg)
  /\ UNCHANGED <<config, pc, route, body, calls, outcome, result, responses, threw, fnCall>>

CallGetLocationInfo ==
  /\ fnCall.fn = "getLocationInfo"
  /\ fnRet = Pending
  /\ fnRet' = getLocationInfo(config, fnCall.arg)
  /\ UNCHANGED <<config, pc, route, body, calls, outcome, result, responses, threw, fnCall>>

\* --------------------------------------------------------- specifications
\* One request of either endpoint, over every payload shape.
Next ==
  \/ WebhookSend(1, Payloads)
  \/ WebhookNotAppointment(1, Payloads)
  \/ WebhookNoPhone(1, Payloads)
  \/ WebhookNoStart(1, Payloads)
  \/ WebhookCatch(1, Payloads)
  \/ AxiosSettle(1)
  \/ WebhookResume(1)
  \/ TestBadRequest(1)
  \/ TestReject(1)
  \/ TestSend(1)
  \/ TestResume(1)

Spec == Init /\ [][Next]_vars

\* Webhook requests in flight together, interleaved at their awaits.
NextConc ==
  \E r \in Reqs :
    \/ WebhookNotAppointment(r, ConcPayloads)
    \/ WebhookNoPhone(r, ConcPayloads)
    \/ WebhookNoStart(r, ConcPayloads)
    \/ WebhookCatch(r, ConcPayloads)
    \/ WebhookSend(r, ConcPayloads)
    \/ AxiosSettle(r)
    \/ WebhookResume(r)

SpecConc == Init /\ [][NextConc]_vars

\* The formatters applied to inputs drawn at the start.
NextPure == CallFormatPhoneNumber \/ CallGetLocationInfo

SpecPure == InitPure /\ [][NextPure]_vars

\* ================================================================= claims
IsStr(v, str) == v.t = "string" /\ v.v = str
IsBool(v, b) == v.t = "boolean" /\ v.v = b

Webhook(r) == route[r] = "webhook"
Answered(r) == Len(responses[r]) > 0

PhoneKeys == {"MobilePhone", "mobilePhone", "Phone", "phone", "HomePhone"}

\* None of the phone-field candidates is on the resolved client object.
NoPhoneCandidate(payload) ==
  \A k \in PhoneKeys : Get(client(payload), k).t = "undefined"

\* The payload names an event type that is a string without "appointment".
FilteredEventType(payload) ==
  /\ eventType(payload).t = "string"
  /\ Truthy(eventType(payload))
  /\ ~includes(toLowerCase(eventType(payload).v), "appointment")

\* The payload's event type is absent (or empty), or a string with "appointment".
EventTypePasses(payload) ==
  \/ ~Truthy(eventType(payload))
  \/ /\ eventType(payload).t = "string"
     /\ includes(toLowerCase(eventType(payload).v), "appointment")

IsCancellation(payload) ==
  \/ IsStr(Get(payload, "eventId"), CancelledEventId)
  \/ IsStr(Get(payload, "EventId"), CancelledEventId)

\* The six parameters "1".."6" in the contract's order.
SixParameters(r) ==
  LET ps == calls[r][1].parameters
      loc == getLocationInfo(config, locationId(body[r]))
  IN  /\ Len(ps) = 6
      /\ [i \in 1..6 |-> ps[i].name] = <<"1", "2", "3", "4", "5", "6">>
      /\ ps[1].value = clientName(body[r])
      /\ ps[2].value = Get(loc, "name")
      /\ ps[3].value = Str(formatDateSpanish(startDateTime(body[r])))
      /\ ps[4].value = Str(formatTime(startDateTime(body[r])))
      /\ ps[5].value = serviceName(body[r])
      /\ ps[6].value = Get(loc, "address")

\* One outbound call before the response, and whatsappSent tells its outcome.
OneCallThenAnswer(r) ==
  /\ Len(calls[r]) = 1
  /\ SixParameters(r)
  /\ Answered(r) =>
       /\ outcome[r].kind \in {"resolved", "rejected"}
       /\ IsBool(Get(responses[r][1].body, "whatsappSent"), outcome[r].kind = "resolved")

\* C1 as stated: every webhook request whose payload has a phone value and a
\* start time and is not a filtered event makes exactly one provider call with
\* the six ordered parameters before it responds, and whatsappSent is true
\* exactly when that call succeeded.
C1_AnyPhoneValueSends ==
  \A r \in Reqs :
    ( /\ Webhook(r) /\ pc[r] # "idle"
      /\ Truthy(clientPhone(body[r])) /\ Truthy(startDateTime(body[r]))
      /\ ~FilteredEventType(body[r]) /\ ~IsCancellation(body[r]) )
    => OneCallThenAnswer(r)

\* C1 amended: the same for every webhook request whose phone value is a
\* string and whose event type is absent or a string containing "appointment".
C1_StringPhoneSends ==
  \A r \in Reqs :
    ( /\ Webhook(r) /\ pc[r] # "idle"
      /\ Truthy(clientPhone(body[r])) /\ clientPhone(body[r]).t = "string"
      /\ Truthy(startDateTime(body[r]))
      /\ EventTypePasses(body[r]) /\ ~IsCancellation(body[r]) )
    => OneCallThenAnswer(r)

C1_Witness ==
  \E r \in Reqs :
    /\ Webhook(r) /\ pc[r] = "done"
    /\ clientPhone(body[r]).t = "string" /\ Truthy(startDateTime(body[r]))
    /\ EventTypePasses(body[r]) /\ ~IsCancellation(body[r])
    /\ outcome[r].kind = "resolved"
    /\ IsBool(Get(responses[r][1].body, "whatsappSent"), TRUE)
    /\ Len(calls[r]) = 1

\* C2 as stated: a webhook request whose eventId (or EventId) is the
\* cancellation value is answered 200 {received, processed: false, reason:
\* "Appointment cancelled"} and makes no provider call, whatever else it carries.
C2_CancellationIsSkipped ==
  \A r \in Reqs :
    (Webhook(r) /\ pc[r] # "idle" /\ IsCancellation(body[r]))
    => /\ calls[r] = <<>>
       /\ responses[r] = <<SkipResponse("Appointment cancelled")>>

\* C3 as stated: a webhook request with no phone-field candidate is answered
\* 200 {received, processed: false, reason: "No phone number"} and makes no
\* provider call, with or without a start time.
C3_NoPhoneAlwaysSkipped ==
  \A r \in Reqs :
    (Webhook(r) /\ pc[r] # "idle" /\ NoPhoneCandidate(body[r]))
    => /\ calls[r] = <<>>
       /\ Len(responses[r]) = 1
       /\ responses[r][1].status = 200
       /\ IsBool(Get(responses[r][1].body, "received"), TRUE)
       /\ IsBool(Get(responses[r][1].body, "processed"), FALSE)
       /\ IsStr(Get(responses[r][1].body, "reason"), "No phone number")

\* C3 amended: the same for every webhook request with no phone-field
\* candidate whose event type is absent or a string containing "appointment"
\* (the event-type check precedes the phone check).
C3_NoPhoneSkippedAfterEventCheck ==
  \A r \in Reqs :
    ( /\ Webhook(r) /\ pc[r] # "idle"
      /\ NoPhoneCandidate(body[r]) /\ EventTypePasses(body[r]) )
    => /\ calls[r] = <<>>
       /\ Len(responses[r]) = 1
       /\ responses[r][1].status = 200
       /\ IsBool(Get(responses[r][1].body, "received"), TRUE)
       /\ IsBool(Get(responses[r][1].body, "processed"), FALSE)
       /\ IsStr(Get(responses[r][1].body, "reason"), "No phone number")

C3_Witness ==
  \E r \in Reqs :
    /\ Webhook(r) /\ pc[r] = "done"
    /\ NoPhoneCandidate(body[r]) /\ EventTypePasses(body[r])
    /\ ~Truthy(startDateTime(body[r]))
    /\ IsStr(Get(responses[r][1].body, "reason"), "No phone number")

\* The error detail of a failed provider call: the provider's response body,
\* or the transport's message when there is none.
ErrorDetail(o) ==
  IF o.response.t = "object" /\ Truthy(Get(o.response, "data"))
  THEN Get(o.response, "data") ELSE o.message

\* C4: when the provider call of a webhook request fails, the sender returns
\* success = false instead of throwing and the handler answers 200 with
\* processed: true, whatsappSent: false and the error detail; no 500 follows a
\* provider call and no second call is made.
C4_DeliveryFailureIs200 ==
  \A r \in Reqs :
    Webhook(r) =>
      /\ Len(calls[r]) <= 1
      /\ (calls[r] # <<>> /\ Answered(r)) => responses[r][1].status = 200
      /\ outcome[r].kind = "rejected" =>
           /\ result[r].t = "object"
           /\ IsBool(Get(result[r], "success"), FALSE)
           /\ Get(result[r], "error") = ErrorDetail(outcome[r])
      /\ (outcome[r].kind = "rejected" /\ pc[r] = "done") =>
           /\ Len(responses[r]) = 1
           /\ IsBool(Get(responses[r][1].body, "received"), TRUE)
           /\ IsBool(Get(responses[r][1].body, "processed"), TRUE)
           /\ IsBool(Get(responses[r][1].body, "whatsappSent"), FALSE)
           /\ Get(responses[r][1].body, "error") = ErrorDetail(outcome[r])

C4_Witness ==
  \E r \in Reqs :
    /\ Webhook(r) /\ pc[r] = "done"
    /\ outcome[r].kind = "rejected" /\ outcome[r].response.t = "undefined"
    /\ IsBool(Get(responses[r][1].body, "whatsappSent"), FALSE)

\* C5: a webhook request ends with exactly one response; a processed: false
\* response has status 200 and a reason and follows no provider call; a
\* finished request made a provider call exactly when its response says
\* processed: true; and a 500 is the answer exactly when an exception was
\* thrown, which no absent phone, absent start time or filtered event type does.
C5_SkipsAre200 ==
  \A r \in Reqs :
    Webhook(r) =>
      /\ pc[r] \in {"awaitWati", "resume", "done"}
      /\ Len(responses[r]) = (IF pc[r] = "done" THEN 1 ELSE 0)
      /\ Answered(r) =>
           LET resp == responses[r][1] IN
           /\ resp.status \in {200, 500}
           /\ IsBool(Get(resp.body, "processed"), FALSE) =>
                /\ resp.status = 200
                /\ Get(resp.body, "reason").t = "string"
                /\ calls[r] = <<>>
           /\ (calls[r] # <<>>) <=> IsBool(Get(resp.body, "processed"), TRUE)
           /\ (resp.status = 500) <=> threw[r]
           /\ threw[r] =>
                \/ Truthy(eventType(body[r])) /\ eventType(body[r]).t # "string"
                \/ Truthy(clientPhone(body[r])) /\ clientPhone(body[r]).t # "string"

C5_Witness ==
  \E r \in Reqs :
    /\ Webhook(r) /\ pc[r] = "done"
    /\ Truthy(clientPhone(body[r])) /\ ~Truthy(startDateTime(body[r]))
    /\ IsStr(Get(responses[r][1].body, "reason"), "No start time")
    /\ responses[r][1].status = 200

\* The digits of a string, collected from its right end.
RECURSIVE DigitsOf(_)
DigitsOf(s) ==
  IF Len(s) = 0 THEN ""
  ELSE DigitsOf(SubSeq(s, 1, Len(s) - 1))
         \o (IF CharAt(s, Len(s)) \in DigitChars THEN CharAt(s, Len(s)) ELSE "")

C7_LocationInfoIsTotal ==
  (fnCall.fn = "getLocationInfo" /\ fnRet # Pending) =>
    /\ fnRet.t = "object"
    /\ Get(fnRet, "name").t = "string"
    /\ Get(fnRet, "address").t = "string"

C7_Witness ==
  /\ fnCall.fn = "getLocationInfo"
  /\ fnCall.arg.t = "undefined"
  /\ fnRet.t = "object"

\* C8 as stated: for a location identifier that is an entry of the location
\* directory, parameters "2" and "6" of the provider call are that entry's
\* own name and address.
C8_DirectoryEntryIsUsed ==
  \A r \in Reqs :
    \A i \in 1..Len(config.locations) :
      ( /\ Webhook(r) /\ calls[r] # <<>>
        /\ IsStr(locationId(body[r]), config.locations[i].key) )
      => /\ calls[r][1].parameters[2].value = Get(config.locations[i].value, "name")
         /\ calls[r][1].parameters[6].value = Get(config.locations[i].value, "address")

\* C9 as stated: a test request without a phone is answered 400 and makes no
\* provider call; a test request with any phone value makes exactly one
\* provider call with the formatted phone and six parameters, and its
\* response is that call's DeliveryResult.
C9_AnyPhoneIsDelivered ==
  \A r \in Reqs :
    (route[r] = "test" /\ pc[r] # "idle") =>
      IF ~Truthy(Get(body[r], "phone"))
      THEN /\ calls[r] = <<>>
           /\ Len(responses[r]) = 1 /\ responses[r][1].status = 400
      ELSE /\ Len(calls[r]) = 1
           /\ Len(calls[r][1].parameters) = 6
           /\ calls[r][1].whatsappNumber.t = "string"
           /\ Answered(r) => (pc[r] = "done" /\ responses[r][1].body = result[r])

\* What a webhook request does when it runs alone: its provider call and its
\* response as functions of the configuration, its payload and the outcome
\* of its own provider call.
SoloCalls(cfg, payload) ==
  IF WebhookStage(cfg, payload) = "send"
  THEN << WatiCall(formatPhoneNumber(clientPhone(payload)), cfg.templateName,
                   WebhookTemplateParams(cfg, payload)) >>
  ELSE <<>>

SoloResponse(cfg, payload, o) ==
  LET stage == WebhookStage(cfg, payload) IN
  CASE stage = "not_appointment" -> SkipResponse("Not an appointment event")
    [] stage = "no_phone" -> SkipResponse("No phone number")
    [] stage = "no_start" -> SkipResponse("No start time")
    [] stage = "throw" -> ErrorResponse("TypeError")
    [] OTHER ->
         Response(200,
           IF o.kind = "resolved"
           THEN Obj([received |-> Bool(TRUE), processed |-> Bool(TRUE),
                     whatsappSent |-> Bool(TRUE)])
           ELSE Obj([received |-> Bool(TRUE), processed |-> Bool(TRUE),
                     whatsappSent |-> Bool(FALSE), error |-> ErrorDetail(o)]))

RequestScoped ==
  \A r \in Reqs :
    pc[r] # "idle" =>
      /\ Len(calls[r]) <= 1
      /\ calls[r] = SoloCalls(config, body[r])
      /\ pc[r] = "done" => responses[r] = <<SoloResponse(config, body[r], outcome[r])>>
      /\ pc[r] # "done" => responses[r] = <<>>

\* C10: under every interleaving of webhook requests suspended at the provider
\* call, each request makes at most one provider call, its call and its
\* response are those it makes alone with the same payload and the same
\* provider outcome, and no step changes the configuration.
C10_RequestsAreIndependent ==
  /\ []RequestScoped
  /\ [][config' = config]_vars

C10_Witness ==
  \E r1, r2 \in Reqs :
    /\ r1 # r2
    /\ pc[r1] = "done" /\ outcome[r1].kind = "rejected"
    /\ pc[r2] = "resume" /\ outcome[r2].kind = "resolved"
    /\ body[r1] # body[r2]

====
